---- MODULE Spec2Model ----
(***************************************************************************)
(* Model of src/src/chunk_type.rs: the ChunkType value, its two fallible   *)
(* constructors (TryFrom<[u8; 4]>, FromStr), Display, derived equality and  *)
(* the accessors of impl ChunkType.                                         *)
(*                                                                          *)
(* A Rust String is a sequence of chars (Unicode scalar values, as the      *)
(* code walks it with chars()); a [u8; 4] is a sequence of four bytes.      *)
(*                                                                          *)
(* A ChunkType value is the record of the fields its constructor assigns.  *)
(* try_from assigns the four u8 fields the struct declares (lines 25-30);   *)
(* from_str assigns byte_str (line 42), the one field Display, bytes() and  *)
(* the five predicates read.  The file has no build in which a read of      *)
(* self.byte_str on a chunk of try_from, or == between chunks of the two    *)
(* constructors, has an outcome: those calls are not steps of the model     *)
(* (the guards HasByteStr and SameFields).                                  *)
(***************************************************************************)
EXTENDS Integers, Sequences, FiniteSets, TLC

VARIABLES input, result, call

vars == <<input, result, call>>

(* ------------------------------ bounds --------------------------------- *)

\* longest string handed to from_str
MaxLen == 4

\* length of the array type [u8; 4]
ChunkLen == 4

\* chars handed to from_str: '1', 'R', 'r', U+00C9 (E acute, uppercase)
Chars == {49, 82, 114, 201}

\* bytes handed to try_from: '1', 'R', 'r', 0xC3 and 0x89 (the UTF-8 of
\* U+00C9 is <<0xC3, 0x89>>; a lone 0x89 is not valid UTF-8)
ByteVals == {49, 82, 114, 195, 137}

\* the operands chunks are compared with: "RrRr", "rrrr", "RRRR"
OtherStrings == {<<82, 114, 82, 114>>, <<114, 114, 114, 114>>, <<82, 82, 82, 82>>}

Strings == UNION {[1..n -> Chars] : n \in 0..MaxLen}

ByteArrays == [1..ChunkLen -> ByteVals]

(* ------------------- std character classification ---------------------- *)

\* char::is_uppercase (Unicode Uppercase), on the code points below U+0100
is_uppercase(c) ==
    \/ c \in 65..90
    \/ c \in 192..214
    \/ c \in 216..222

\* char::is_lowercase (Unicode Lowercase), on the code points below U+0100
is_lowercase(c) ==
    \/ c \in 97..122
    \/ c \in {170, 181, 186}
    \/ c \in 223..246
    \/ c \in 248..255

\* char::is_alphabetic (Unicode Alphabetic), on the code points below U+0100
is_alphabetic(c) == is_uppercase(c) \/ is_lowercase(c)

(* --------------------------- std UTF-8 --------------------------------- *)

IsCont(b) == b \in 128..191

\* std::str::from_utf8(..).is_ok(): the bytes from position i on are
\* well-formed UTF-8
RECURSIVE Utf8From(_, _)
Utf8From(v, i) ==
    IF i > Len(v) THEN TRUE
    ELSE IF v[i] < 128 THEN Utf8From(v, i + 1)
    ELSE IF v[i] \in 194..223
        THEN i + 1 <= Len(v) /\ IsCont(v[i + 1]) /\ Utf8From(v, i + 2)
    ELSE IF v[i] \in 224..239
        THEN /\ i + 2 <= Len(v)
             /\ IsCont(v[i + 1]) /\ IsCont(v[i + 2])
             /\ (v[i] = 224 => v[i + 1] >= 160)
             /\ (v[i] = 237 => v[i + 1] <= 159)
             /\ Utf8From(v, i + 3)
    ELSE IF v[i] \in 240..244
        THEN /\ i + 3 <= Len(v)
             /\ IsCont(v[i + 1]) /\ IsCont(v[i + 2]) /\ IsCont(v[i + 3])
             /\ (v[i] = 240 => v[i + 1] >= 144)
             /\ (v[i] = 244 => v[i + 1] <= 143)
             /\ Utf8From(v, i + 4)
    ELSE FALSE

from_utf8_is_ok(v) == Utf8From(v, 1)

\* the UTF-8 encoding of one char below U+0800
encode_utf8(c) ==
    IF c < 128 THEN <<c>>
    ELSE <<192 + (c \div 64), 128 + (c % 64)>>

\* str::as_bytes: the UTF-8 bytes of a string
RECURSIVE as_bytes(_)
as_bytes(s) ==
    IF s = <<>> THEN <<>>
    ELSE encode_utf8(Head(s)) \o as_bytes(Tail(s))

(* ---------------------------- outcomes --------------------------------- *)

\* Ok(v), or a plain return of v
Returned(v) == [status |-> "returned", val |-> v]

\* Err(e)
Failed(e) == [status |-> "err", err |-> e]

\* a panic: unwrap() on Err or None
Panicked == [status |-> "panic"]

(* --------------------------- constructors ------------------------------ *)

\* impl TryFrom<[u8; 4]> for ChunkType
try_from(value) ==
    IF ~from_utf8_is_ok(value) THEN Panicked
    ELSE Returned([ancillary_bit    |-> value[1],
                   private_bit      |-> value[2],
                   reserved_bit     |-> value[3],
                   safe_to_copy_bit |-> value[4]])

\* impl FromStr for ChunkType
from_str(string) ==
    IF \A i \in 1..Len(string) : is_alphabetic(string[i])
    THEN Returned([byte_str |-> string])
    ELSE Failed("Chunk must be alphabetic")

(* ---------------------------- accessors -------------------------------- *)

\* Display writing the string without its last char
fmt_truncated(self) ==
    Returned(SubSeq(self.byte_str, 1, Len(self.byte_str) - 1))

\* impl fmt::Display for ChunkType (and so to_string)
fmt(self) == Returned(self.byte_str)

\* ChunkType::bytes
bytes(self) ==
    IF Len(as_bytes(self.byte_str)) # ChunkLen THEN Panicked
    ELSE Returned(as_bytes(self.byte_str))

\* self.byte_str.chars().nth(n): the char at 0-based index n, if any
HasNth(self, n) == n + 1 <= Len(self.byte_str)

\* ChunkType::is_safe_to_copy
is_safe_to_copy(self) ==
    IF ~HasNth(self, 3) THEN Panicked
    ELSE Returned(is_lowercase(self.byte_str[4]))

\* ChunkType::is_public
is_public(self) ==
    IF ~HasNth(self, 1) THEN Panicked
    ELSE Returned(is_uppercase(self.byte_str[2]))

\* ChunkType::is_critical
is_critical(self) ==
    IF ~HasNth(self, 0) THEN Panicked
    ELSE Returned(is_uppercase(self.byte_str[1]))

\* ChunkType::is_reserved_bit_valid
is_reserved_bit_valid(self) ==
    IF ~HasNth(self, 2) THEN Panicked
    ELSE Returned(is_uppercase(self.byte_str[3]) /\ is_alphabetic(self.byte_str[3]))

\* ChunkType::is_valid
is_valid(self) == is_reserved_bit_valid(self)

\* the two operands of == carry the same fields
SameFields(self, other) == DOMAIN self = DOMAIN other

\* #[derive(PartialEq, Eq)]: field-wise comparison of the two values
eq(self, other) == \A f \in DOMAIN self : self[f] = other[f]

(* --------------------------- state machine ----------------------------- *)

NoResult == [status |-> "none"]

NoCall == [op |-> "none"]

\* the arguments a caller can hand to the two constructors
Inputs ==
    {[ctor |-> "from_str", string |-> s] : s \in Strings}
    \cup {[ctor |-> "try_from", value |-> v] : v \in ByteArrays}

Init ==
    /\ input \in Inputs
    /\ result = NoResult
    /\ call = NoCall

\* ChunkType::try_from(value)
TryFromCall ==
    /\ input.ctor = "try_from"
    /\ result = NoResult
    /\ result' = try_from(input.value)
    /\ UNCHANGED <<input, call>>

\* ChunkType::from_str(string)
FromStrCall ==
    /\ input.ctor = "from_str"
    /\ result = NoResult
    /\ result' = from_str(input.string)
    /\ UNCHANGED <<input, call>>

\* a constructor returned Ok(chunk)
HasChunk == result.status = "returned"

\* self.byte_str names a field of the chunk
HasByteStr(self) == "byte_str" \in DOMAIN self

\* a method of the chunk that reads self.byte_str is called and returns ret
Apply(op, ret) ==
    /\ call' = [op |-> op, ret |-> ret]
    /\ UNCHANGED <<input, result>>

ToStringCall ==
    HasChunk /\ HasByteStr(result.val) /\ Apply("to_string", fmt(result.val))

BytesCall ==
    HasChunk /\ HasByteStr(result.val) /\ Apply("bytes", bytes(result.val))

IsValidCall ==
    HasChunk /\ HasByteStr(result.val) /\ Apply("is_valid", is_valid(result.val))

IsSafeToCopyCall ==
    /\ HasChunk
    /\ HasByteStr(result.val)
    /\ Apply("is_safe_to_copy", is_safe_to_copy(result.val))

IsPublicCall ==
    HasChunk /\ HasByteStr(result.val) /\ Apply("is_public", is_public(result.val))

IsCriticalCall ==
    HasChunk /\ HasByteStr(result.val) /\ Apply("is_critical", is_critical(result.val))

IsReservedBitValidCall ==
    /\ HasChunk
    /\ HasByteStr(result.val)
    /\ Apply("is_reserved_bit_valid", is_reserved_bit_valid(result.val))

\* the other operands of ==: the chunks either constructor returns for
\* OtherStrings
OtherInputs ==
    {[ctor |-> "try_from", value |-> as_bytes(s)] : s \in OtherStrings}
    \cup {[ctor |-> "from_str", string |-> s] : s \in OtherStrings}

Construct(in) ==
    IF in.ctor = "try_from" THEN try_from(in.value) ELSE from_str(in.string)

\* chunk == other
EqCall ==
    /\ HasChunk
    /\ \E o \in OtherInputs :
        /\ Construct(o).status = "returned"
        /\ SameFields(result.val, Construct(o).val)
        /\ call' = [op |-> "eq", other_input |-> o, other |-> Construct(o).val,
                    ret |-> Returned(eq(result.val, Construct(o).val))]
    /\ UNCHANGED <<input, result>>

Next ==
    \/ TryFromCall
    \/ FromStrCall
    \/ ToStringCall
    \/ BytesCall
    \/ IsValidCall
    \/ IsSafeToCopyCall
    \/ IsPublicCall
    \/ IsCriticalCall
    \/ IsReservedBitValidCall
    \/ EqCall

Spec == Init /\ [][Next]_vars

(* ------------------------------ claims --------------------------------- *)

IsAsciiUpper(b) == b \in 65..90

IsAsciiLower(b) == b \in 97..122

IsAsciiLetter(b) == IsAsciiUpper(b) \/ IsAsciiLower(b)

AllAsciiLetters(s) == \A i \in 1..Len(s) : IsAsciiLetter(s[i])

\* the bytes a chunk stores, whichever constructor built it
StoredBytes(chunk) ==
    IF HasByteStr(chunk) THEN as_bytes(chunk.byte_str)
    ELSE <<chunk.ancillary_bit, chunk.private_bit,
           chunk.reserved_bit, chunk.safe_to_copy_bit>>

Constructed == result # NoResult

Accessors ==
    {"to_string", "bytes", "is_valid", "is_safe_to_copy", "is_public",
     "is_critical", "is_reserved_bit_valid"}

\* C1: try_from returns an error whenever one of the 4 bytes is not an ASCII
\* letter, and a chunk only when all 4 bytes are ASCII letters.
C1_FromBytesRejectsNonLetters ==
    (input.ctor = "try_from" /\ Constructed) =>
        /\ (~AllAsciiLetters(input.value) => result.status = "err")
        /\ (result.status = "returned" => AllAsciiLetters(input.value))

\* C2: from_str returns an error whenever the string is not exactly 4 chars
\* long, even when every char is a letter.
C2_FromStringRejectsWrongLength ==
    (input.ctor = "from_str" /\ Constructed /\ Len(input.string) # ChunkLen) =>
        result.status = "err"

\* C3: from_str returns an error whenever some char is not an ASCII letter,
\* non-ASCII alphabetic code points included.
C3_FromStringRejectsNonAscii ==
    (input.ctor = "from_str" /\ Constructed /\ ~AllAsciiLetters(input.string)) =>
        result.status = "err"

\* C4: for 4 ASCII letters b, try_from(b) succeeds and bytes() of its chunk
\* returns exactly b.
C4_ByteRoundTrip ==
    (input.ctor = "try_from" /\ Constructed /\ AllAsciiLetters(input.value)) =>
        /\ result.status = "returned"
        /\ HasByteStr(result.val)
        /\ bytes(result.val).status = "returned"
        /\ bytes(result.val).val = input.value

\* C5: for every string s of 4 ASCII letters, from_str(s) succeeds and
\* to_string() of the chunk returns exactly s, case preserved.
C5_StringRoundTrip ==
    (/\ input.ctor = "from_str"
     /\ Constructed
     /\ Len(input.string) = ChunkLen
     /\ AllAsciiLetters(input.string)) =>
        /\ result.status = "returned"
        /\ call.op = "to_string" =>
            (call.ret.status = "returned" /\ call.ret.val = input.string)

\* C5 witness: to_string() has returned on the chunk of "RrRr"
C5_Witness ==
    /\ input.ctor = "from_str"
    /\ input.string = <<82, 114, 82, 114>>
    /\ result.status = "returned"
    /\ call.op = "to_string"
    /\ call.ret.status = "returned"

\* C6: for every string s of 4 ASCII letters, from_str(s) and
\* try_from(bytes of s) both succeed and their chunks compare equal.
C6_CrossConstructorEquivalence ==
    (/\ input.ctor = "from_str"
     /\ Constructed
     /\ Len(input.string) = ChunkLen
     /\ AllAsciiLetters(input.string)) =>
        /\ result.status = "returned"
        /\ try_from(as_bytes(input.string)).status = "returned"
        /\ SameFields(result.val, try_from(as_bytes(input.string)).val)
        /\ eq(result.val, try_from(as_bytes(input.string)).val)

\* C7: on every constructed chunk is_critical() is true iff byte 0 is an
\* uppercase letter, is_public() iff byte 1 is, is_reserved_bit_valid() iff
\* byte 2 is, and is_safe_to_copy() iff byte 3 is lowercase.
C7_FlagDerivation ==
    HasChunk =>
        /\ call.op = "is_critical" =>
            /\ call.ret.status = "returned"
            /\ Len(StoredBytes(result.val)) >= 1
            /\ call.ret.val = IsAsciiUpper(StoredBytes(result.val)[1])
        /\ call.op = "is_public" =>
            /\ call.ret.status = "returned"
            /\ Len(StoredBytes(result.val)) >= 2
            /\ call.ret.val = IsAsciiUpper(StoredBytes(result.val)[2])
        /\ call.op = "is_reserved_bit_valid" =>
            /\ call.ret.status = "returned"
            /\ Len(StoredBytes(result.val)) >= 3
            /\ call.ret.val = IsAsciiUpper(StoredBytes(result.val)[3])
        /\ call.op = "is_safe_to_copy" =>
            /\ call.ret.status = "returned"
            /\ Len(StoredBytes(result.val)) >= 4
            /\ call.ret.val = IsAsciiLower(StoredBytes(result.val)[4])

\* C8: on every constructed chunk is_valid() returns the value of
\* is_reserved_bit_valid(): true iff byte 2 is uppercase.
C8_IsValidIsReservedBit ==
    (HasChunk /\ call.op = "is_valid") =>
        /\ call.ret.status = "returned"
        /\ is_reserved_bit_valid(result.val).status = "returned"
        /\ call.ret.val = is_reserved_bit_valid(result.val).val
        /\ Len(StoredBytes(result.val)) >= 3
        /\ call.ret.val = IsAsciiUpper(StoredBytes(result.val)[3])

\* C9: no operation panics: a constructor returns a chunk or an error, and
\* every accessor returns a value on every constructed chunk.
C9_Totality ==
    /\ Constructed => result.status \in {"returned", "err"}
    /\ call.op \in Accessors => call.ret.status = "returned"

\* C10: two constructed chunks compare equal iff their 4 stored bytes are
\* pairwise equal.
C10_EqualityIsByteEquality ==
    HasChunk =>
        \A o \in OtherInputs :
            Construct(o).status = "returned" =>
                /\ SameFields(result.val, Construct(o).val)
                /\ eq(result.val, Construct(o).val)
                    <=> StoredBytes(result.val) = StoredBytes(Construct(o).val)

====
